---- MODULE Spec2Model ----
(***************************************************************************)
(* A model of the ROA / price-to-book research pipeline:                   *)
(*   pull_wrds_data.py        queries accounting and market data, merges   *)
(*   code/python/prepare_data.py   unit alignment, ratios, filters         *)
(*   do_analysis.py           correlation and scatter plots                *)
(*   code/python/panel_eda_helper_funcs.py   correlation / regression      *)
(*                            table helpers                                *)
(* A run of a script is one action on the file-system state it finds; the  *)
(* data frames are sequences of records, the float64 cells are exact       *)
(* rationals extended with inf, -inf and nan.                              *)
(***************************************************************************)
EXTENDS Integers, Sequences, FiniteSets, TLC

VARIABLES
    files,          \* path -> [exists, rows]: the parquet files on disk
    processed_path, \* config['processed_data']
    figures,        \* the figure files present under output/figures
    figdir,         \* whether the directory output/figures exists
    ran,            \* the script of the last run
    stdout,         \* script -> the diagnostics its last run printed
    raised,         \* the exception that ended the last run ("" when none)
    reads,          \* the paths the last run read a table from
    corrs,          \* the number of correlations the last run computed
    target_isins,   \* pull_wrds_data: the ISINs read from the list
    df_acct,        \* pull_wrds_data: the accounting query's result
    df_mkt_raw,     \* pull_wrds_data: the market query's result
    df_mkt,         \* pull_wrds_data: the market table used for the merge
    df_cols,        \* prepare_correlation_table: the numeric columns of df
    sp_pvalue,      \* the p-values spearmanr returned, by pair of columns
    pe_pvalue,      \* the p-values pearsonr returned, by pair of columns
    spe,            \* prepare_correlation_table: the matrix _spe
    pval_tab,       \* prepare_correlation_table: the matrix of bold flags
    reg_args,       \* PrepareRegressionTable: the constructor's arguments
    self,           \* PrepareRegressionTable: the object's fields
    reg_pc,         \* where the constructor is: new, validated, done, failed
    reg_raised,     \* the exception the constructor raised ("" when none)
    estimated,      \* the number of models feols has estimated
    pvalues,        \* self.pvalues: variable -> p-value per model
    sig_rows        \* variable -> _mark_sig(variable), the cells of its row

fsvars == <<files, processed_path, figures, figdir, ran, stdout, raised, reads, corrs>>

pullvars == <<target_isins, df_acct, df_mkt_raw, df_mkt>>

corrvars == <<df_cols, sp_pvalue, pe_pvalue, spe, pval_tab>>

regvars == <<reg_args, self, reg_pc, reg_raised, estimated, pvalues, sig_rows>>

vars == <<fsvars, pullvars, corrvars, regvars>>

(***************************************************************************)
(* float64 cells                                                           *)
(***************************************************************************)
RECURSIVE GCD(_, _)
GCD(a, b) == IF b = 0 THEN a ELSE GCD(b, a % b)

Abs(n) == IF n < 0 THEN -n ELSE n

Sgn(n) == IF n < 0 THEN -1 ELSE IF n > 0 THEN 1 ELSE 0

NaN == [k |-> "nan", n |-> 0, d |-> 1]

Inf == [k |-> "inf", n |-> 1, d |-> 1]

NegInf == [k |-> "inf", n |-> -1, d |-> 1]

\* the finite value n/d, in lowest terms with a positive denominator
Rat(n, d) ==
    LET g == GCD(Abs(n), Abs(d))
    IN  [k |-> "fin", n |-> Sgn(d) * (n \div g), d |-> Abs(d) \div g]

Fin(n) == [k |-> "fin", n |-> n, d |-> 1]

IsNaN(a) == a.k = "nan"

IsInf(a) == a.k = "inf"

SignedInf(s) == IF s < 0 THEN NegInf ELSE Inf

\* IEEE multiplication: nan absorbs, inf * 0 is nan
Mul(a, b) ==
    IF IsNaN(a) \/ IsNaN(b) THEN NaN
    ELSE IF IsInf(a) \/ IsInf(b)
         THEN IF a.n = 0 \/ b.n = 0 THEN NaN ELSE SignedInf(Sgn(a.n) * Sgn(b.n))
         ELSE Rat(a.n * b.n, a.d * b.d)

\* IEEE division: inf / inf and 0 / 0 are nan, x / 0 is a signed inf, x / inf is 0
Div(a, b) ==
    IF IsNaN(a) \/ IsNaN(b) THEN NaN
    ELSE IF IsInf(a)
         THEN IF IsInf(b) THEN NaN
              ELSE SignedInf(Sgn(a.n) * (IF b.n < 0 THEN -1 ELSE 1))
         ELSE IF IsInf(b) THEN Fin(0)
              ELSE IF b.n = 0
                   THEN IF a.n = 0 THEN NaN ELSE SignedInf(Sgn(a.n))
                   ELSE Rat(a.n * b.d, a.d * b.n)

\* IEEE comparisons: every comparison with nan is false
Lt(a, b) ==
    IF IsNaN(a) \/ IsNaN(b) THEN FALSE
    ELSE IF IsInf(a) THEN a.n < 0 /\ ~(IsInf(b) /\ b.n < 0)
         ELSE IF IsInf(b) THEN b.n > 0
              ELSE a.n * b.d < b.n * a.d

Gt(a, b) == Lt(b, a)

FEq(a, b) == ~IsNaN(a) /\ ~IsNaN(b) /\ a = b

(***************************************************************************)
(* Paths, constants and the raw-data file                                  *)
(***************************************************************************)
RawPath == "wrds_raw_data"

\* the path do_analysis.py reads in its second part, whatever the config says
HardPath == "data/generated/analysis_data.parquet"

AltPath == "data/generated/other.parquet"

Paths == {RawPath, HardPath, AltPath}

ScatterPng == "output/figures/roa_pb_scatter.png"

ProfitPng == "output/figures/roa_pb_profit_only.png"

target_year == 2023

UnitScale == 1000000

PbUpper == 50

MinSamples == 2

Absent == [exists |-> FALSE, rows |-> <<>>]

File(rows) == [exists |-> TRUE, rows |-> rows]

ExistsUnchecked(path) == TRUE

\* os.path.exists
Exists(path) == files[path].exists

\* pull_wrds_data.main: market_cap = price_close * shares_outstanding
MarketCap(price, shares) == Mul(price, shares)

\* one row of the merged frame pull_wrds_data.main writes
MergedRow(a, m) ==
    [isin |-> a.isin, year_ |-> a.year_, total_assets |-> a.total_assets,
     net_income |-> a.net_income, common_equity |-> a.common_equity,
     price_close |-> m.price_close, shares_outstanding |-> m.shares_outstanding,
     market_cap |-> MarketCap(m.price_close, m.shares_outstanding)]

(***************************************************************************)
(* code/python/prepare_data.py                                             *)
(***************************************************************************)
\* pd.read_parquet: the rows with their RangeIndex label
ReadParquet(rows) ==
    [i \in 1..Len(rows) |->
        [index |-> i - 1, isin |-> rows[i].isin, year_ |-> rows[i].year_,
         total_assets |-> rows[i].total_assets, net_income |-> rows[i].net_income,
         common_equity |-> rows[i].common_equity, price_close |-> rows[i].price_close,
         shares_outstanding |-> rows[i].shares_outstanding,
         market_cap |-> rows[i].market_cap]]

\* the unit alignment: total_assets, common_equity, net_income times 1,000,000
ScaleUnits(r) ==
    [r EXCEPT !.total_assets = Mul(@, Fin(UnitScale)),
              !.common_equity = Mul(@, Fin(UnitScale)),
              !.net_income = Mul(@, Fin(UnitScale))]

\* df[(common_equity > 0) & (total_assets > 0)]
PositiveBase(r) == Gt(r.common_equity, Fin(0)) /\ Gt(r.total_assets, Fin(0))

Roa(r) == Div(r.net_income, r.total_assets)

PbFromPrice(r) == Div(r.price_close, r.common_equity)

Pb(r) == Div(r.market_cap, r.common_equity)

\* the two ratio columns, added to the filtered frame
AddRatios(r) ==
    [index |-> r.index, isin |-> r.isin, year_ |-> r.year_,
     total_assets |-> r.total_assets, net_income |-> r.net_income,
     common_equity |-> r.common_equity, price_close |-> r.price_close,
     shares_outstanding |-> r.shares_outstanding, market_cap |-> r.market_cap,
     roa |-> Roa(r), pb |-> Pb(r)]

InfToNaN(x) == IF IsInf(x) THEN NaN ELSE x

\* df_clean.replace([inf, -inf], nan): every cell of the frame
ReplaceInf(r) ==
    [r EXCEPT !.year_ = InfToNaN(@), !.total_assets = InfToNaN(@),
              !.net_income = InfToNaN(@), !.common_equity = InfToNaN(@),
              !.price_close = InfToNaN(@), !.shares_outstanding = InfToNaN(@),
              !.market_cap = InfToNaN(@), !.roa = InfToNaN(@), !.pb = InfToNaN(@)]

\* dropna(subset=['roa', 'pb'])
NotMissing(r) == ~IsNaN(r.roa) /\ ~IsNaN(r.pb)

\* (pb > 0) & (pb < 50) & (roa > -1) & (roa < 1)
InRange(r) ==
    /\ Gt(r.pb, Fin(0)) /\ Lt(r.pb, Fin(PbUpper))
    /\ Gt(r.roa, Fin(-1)) /\ Lt(r.roa, Fin(1))

\* lines 19-64: the frame prepare_data.main ends with
CleanFrame(rows) ==
    LET read     == ReadParquet(rows)
        df       == [i \in 1..Len(read) |-> ScaleUnits(read[i])]
        positive == SelectSeq(df, PositiveBase)
        df_clean == [i \in 1..Len(positive) |-> AddRatios(positive[i])]
        replaced == [i \in 1..Len(df_clean) |-> ReplaceInf(df_clean[i])]
        df_final == SelectSeq(replaced, NotMissing)
    IN  SelectSeq(df_final, InRange)

MsgMissing == "input file not found"

MsgStart == "start"

MsgEmpty == "still empty"

MsgCleaned == "cleaned"

PrepareData ==
    /\ ran' = "prepare_data"
    /\ raised' = ""
    /\ corrs' = 0
    /\ UNCHANGED <<processed_path, figures, figdir, pullvars, corrvars, regvars>>
    /\ IF ~Exists(RawPath)
       THEN /\ stdout' = [stdout EXCEPT !["prepare_data"] = <<MsgStart, MsgMissing>>]
            /\ reads' = {}
            /\ UNCHANGED files
       ELSE LET df_final == CleanFrame(files[RawPath].rows)
            IN  /\ reads' = {RawPath}
                /\ IF df_final = <<>>
                   THEN /\ stdout' = [stdout EXCEPT !["prepare_data"] =
                                          <<MsgStart, MsgEmpty>>]
                        /\ UNCHANGED files
                   ELSE /\ stdout' = [stdout EXCEPT !["prepare_data"] =
                                          <<MsgStart, MsgCleaned>>]
                        /\ files' = [files EXCEPT ![processed_path] = File(df_final)]

(***************************************************************************)
(* do_analysis.py                                                          *)
(***************************************************************************)
MsgNoProcessed == "processed data file not found"

MsgSummary == "summary"

MsgTooFew == "too few samples"

MsgCorr == "correlation"

MsgSaved == "figure saved"

MsgNewFigure == "new figure"

\* df[df['roa'] > 0]
Profitable(r) == Gt(r.roa, Fin(0))

\* sns.regplot takes the range of x, which raises on an empty frame; on a
\* single row the fit is degenerate and either outcome is allowed for
RegplotOutcomes(df) ==
    IF Len(df) = 0 THEN {FALSE}
    ELSE IF Len(df) < MinSamples THEN BOOLEAN ELSE {TRUE}

\* lines 25-49: the statistics and the scatter plot of the first part
FirstPart(df) ==
    IF Len(df) < MinSamples
    THEN [out |-> <<MsgSummary, MsgTooFew>>, corrs |-> 0,
          figures |-> figures, figdir |-> figdir]
    ELSE [out |-> <<MsgSummary, MsgCorr, MsgSaved>>, corrs |-> 1,
          figures |-> figures \cup {ScatterPng}, figdir |-> TRUE]

DoAnalysis ==
    /\ ran' = "do_analysis"
    /\ UNCHANGED <<files, processed_path, pullvars, corrvars, regvars>>
    /\ IF ~Exists(processed_path)
       THEN \* lines 14-16: print and exit()
            /\ stdout' = [stdout EXCEPT !["do_analysis"] = <<MsgNoProcessed>>]
            /\ raised' = ""
            /\ reads' = {}
            /\ corrs' = 0
            /\ UNCHANGED <<figures, figdir>>
       ELSE LET p1 == FirstPart(files[processed_path].rows)
            IN  /\ figdir' = p1.figdir
                /\ IF ~Exists(HardPath)
                   THEN \* line 56: pd.read_parquet of a missing file
                        /\ stdout' = [stdout EXCEPT !["do_analysis"] = p1.out]
                        /\ raised' = "FileNotFoundError"
                        /\ reads' = {processed_path}
                        /\ corrs' = p1.corrs
                        /\ figures' = p1.figures
                   ELSE LET df_profit == SelectSeq(files[HardPath].rows, Profitable)
                        IN  /\ reads' = {processed_path, HardPath}
                            /\ corrs' = p1.corrs + 1
                            /\ \E ok \in RegplotOutcomes(df_profit) :
                                 IF ~ok
                                 THEN /\ stdout' = [stdout EXCEPT !["do_analysis"] = p1.out]
                                      /\ raised' = "ValueError"
                                      /\ figures' = p1.figures
                                 ELSE IF ~p1.figdir
                                 THEN \* line 73: savefig into a missing directory
                                      /\ stdout' = [stdout EXCEPT !["do_analysis"] = p1.out]
                                      /\ raised' = "FileNotFoundError"
                                      /\ figures' = p1.figures
                                 ELSE /\ stdout' = [stdout EXCEPT !["do_analysis"] =
                                                        Append(p1.out, MsgNewFigure)]
                                      /\ raised' = ""
                                      /\ figures' = p1.figures \cup {ProfitPng}

(***************************************************************************)
(* The file-system states the two scripts start from                       *)
(***************************************************************************)
MaxRawRows == 2

BaseRow ==
    MergedRow([isin |-> "DE000BASF111", year_ |-> Fin(target_year),
               total_assets |-> Fin(2), net_income |-> Fin(1),
               common_equity |-> Fin(1)],
              [price_close |-> Fin(100), shares_outstanding |-> Fin(10000)])

\* rows pull_wrds_data.main can write: one database cell of BaseRow varied
RawRows ==
    LET acct == [isin |-> "DE000BASF111", year_ |-> Fin(target_year),
                 total_assets |-> Fin(2), net_income |-> Fin(1),
                 common_equity |-> Fin(1)]
        mkt  == [price_close |-> Fin(100), shares_outstanding |-> Fin(10000)]
    IN  {MergedRow([acct EXCEPT !.total_assets = v], mkt) :
            v \in {Fin(0), Fin(2), Inf}}
        \cup {MergedRow([acct EXCEPT !.net_income = v], mkt) :
            v \in {Fin(-2), Fin(2), NaN, Inf}}
        \cup {MergedRow([acct EXCEPT !.common_equity = v], mkt) :
            v \in {Fin(0), Fin(2), NaN, Inf}}
        \cup {MergedRow(acct, [mkt EXCEPT !.price_close = v]) :
            v \in {Fin(0), Fin(5000), NaN, Inf}}
        \cup {MergedRow(acct, [mkt EXCEPT !.shares_outstanding = v]) :
            v \in {NaN}}

SeqsUpTo(S, n) == UNION {[1..m -> S] : m \in 1..n}

RawTables == SeqsUpTo(RawRows, MaxRawRows)

\* a processed file left by an earlier run of prepare_data
OldProcessed == File(CleanFrame(<<BaseRow, BaseRow>>))

Scripts == {"pull_wrds_data", "prepare_data", "do_analysis"}

\* no script has run yet
NotRun ==
    /\ ran = "none"
    /\ stdout = [s \in Scripts |-> <<>>]
    /\ raised = ""
    /\ reads = {}
    /\ corrs = 0

PullNotRun ==
    /\ target_isins = {}
    /\ df_acct = <<>>
    /\ df_mkt_raw = <<>>
    /\ df_mkt = <<>>

\* prepare_correlation_table has not been called
CorrNotCalled ==
    /\ df_cols = 0
    /\ sp_pvalue = <<>>
    /\ pe_pvalue = <<>>
    /\ spe = <<>>
    /\ pval_tab = <<>>

NoArgs ==
    [dvs |-> 0, idvs |-> <<>>, entity_effects |-> [none |-> TRUE, val |-> <<>>],
     time_effects |-> [none |-> TRUE, val |-> <<>>],
     cluster_entity |-> [none |-> TRUE, val |-> <<>>],
     cluster_time |-> [none |-> TRUE, val |-> <<>>],
     models |-> [none |-> TRUE, val |-> <<>>], byvar |-> ""]

NoFields ==
    [len |-> 0, dvs |-> 0, idvs |-> <<>>, entity_effects |-> <<>>,
     time_effects |-> <<>>, cluster_entity |-> <<>>, cluster_time |-> <<>>,
     models |-> <<>>, byvar |-> ""]

\* PrepareRegressionTable has not been constructed
RegNotConstructed ==
    /\ reg_args = NoArgs
    /\ self = NoFields
    /\ reg_pc = "new"
    /\ reg_raised = ""
    /\ estimated = 0
    /\ pvalues = <<>>
    /\ sig_rows = <<>>

\* the helper functions are called on a frame in memory: no file is involved
InitIdle ==
    /\ processed_path = HardPath
    /\ files = [p \in Paths |-> Absent]
    /\ figdir = FALSE
    /\ figures = {}
    /\ NotRun
    /\ PullNotRun
    /\ CorrNotCalled
    /\ RegNotConstructed

Init ==
    /\ processed_path \in {HardPath, AltPath}
    /\ \E raw \in {Absent} \cup {File(t) : t \in RawTables},
          hard \in {Absent, OldProcessed},
          alt \in IF processed_path = AltPath THEN {Absent, OldProcessed} ELSE {Absent} :
            files = [p \in Paths |->
                        IF p = RawPath THEN raw ELSE IF p = HardPath THEN hard ELSE alt]
    /\ figdir \in BOOLEAN
    /\ figures = {}
    /\ ran = "none"
    /\ NotRun
    /\ PullNotRun
    /\ CorrNotCalled
    /\ RegNotConstructed

Next == PrepareData \/ DoAnalysis

Spec == Init /\ [][Next]_vars

(***************************************************************************)
(* prepare_data and do_analysis: the properties                            *)
(***************************************************************************)
\* prepare_data.main wrote the processed file in its last run
PrepareWrote == stdout["prepare_data"] = <<MsgStart, MsgCleaned>>

Written == files[processed_path].rows

\* the raw row a written row comes from, by its index label
RawOf(r) == files[RawPath].rows[r.index + 1]

\* C1: every row prepare_data.main writes has common_equity > 0,
\* total_assets > 0, 0 < pb < 50 and -1 < roa < 1, with roa and pb present.
C1_WrittenRowsFiltered ==
    PrepareWrote =>
        \A i \in 1..Len(Written) :
            LET r == Written[i]
            IN  /\ Gt(r.common_equity, Fin(0))
                /\ Gt(r.total_assets, Fin(0))
                /\ Gt(r.pb, Fin(0)) /\ Lt(r.pb, Fin(PbUpper))
                /\ Gt(r.roa, Fin(-1)) /\ Lt(r.roa, Fin(1))
                /\ ~IsNaN(r.roa) /\ ~IsNaN(r.pb)

\* C2: for every written row roa * total_assets = net_income, and roa is
\* the ratio of the unscaled input net_income and total_assets.
C2_RoaIsIncomeOverAssets ==
    PrepareWrote =>
        \A i \in 1..Len(Written) :
            LET r == Written[i]
            IN  /\ FEq(Mul(r.roa, r.total_assets), r.net_income)
                /\ FEq(r.roa, Div(RawOf(r).net_income, RawOf(r).total_assets))

\* C3: for every written row pb * common_equity_input * 1,000,000 =
\* market_cap with market_cap the input value, and the columns other than
\* total_assets, common_equity and net_income are the input's.
C3_PbIsCapOverEquity ==
    PrepareWrote =>
        \A i \in 1..Len(Written) :
            LET r == Written[i]
                x == RawOf(r)
            IN  /\ FEq(Mul(Mul(r.pb, x.common_equity), Fin(UnitScale)), x.market_cap)
                /\ r.common_equity = Mul(x.common_equity, Fin(UnitScale))
                /\ r.market_cap = x.market_cap
                /\ r.isin = x.isin
                /\ r.year_ = x.year_
                /\ r.price_close = x.price_close
                /\ r.shares_outstanding = x.shares_outstanding

\* a written row whose price-to-book ratio is not 1: the unit scaling shows
C3_Witness ==
    /\ PrepareWrote
    /\ \E i \in 1..Len(Written) : Written[i].pb = Rat(1, 2)
    /\ \E i \in 1..Len(Written) : Written[i].index = 1

\* C4: with the input file missing, prepare_data.main and do_analysis print
\* their diagnostic and stop: no table is read, no file or figure changes.
C4_MissingInputNoEffect ==
    [][/\ (ran' = "prepare_data" /\ ~files[RawPath].exists) =>
            /\ stdout'["prepare_data"] = <<MsgStart, MsgMissing>>
            /\ reads' = {}
            /\ files' = files /\ figures' = figures /\ figdir' = figdir
       /\ (ran' = "do_analysis" /\ ~files[processed_path].exists) =>
            /\ stdout'["do_analysis"] = <<MsgNoProcessed>>
            /\ reads' = {} /\ corrs' = 0 /\ raised' = ""
            /\ files' = files /\ figures' = figures /\ figdir' = figdir]_vars

\* both scripts have stopped on a missing input, an older processed file on disk
C4_Witness ==
    /\ ran = "do_analysis"
    /\ stdout["prepare_data"] = <<MsgStart, MsgMissing>>
    /\ stdout["do_analysis"] = <<MsgNoProcessed>>
    /\ ~files[RawPath].exists /\ ~files[processed_path].exists
    /\ files[HardPath].exists
    /\ reads = {} /\ figures = {}

\* C5: with fewer than 2 rows in the processed table do_analysis prints the
\* too-few-samples diagnostic and stops: no correlation, no figure written.
C5_TooFewSamplesStops ==
    [][(/\ ran' = "do_analysis"
        /\ files[processed_path].exists
        /\ Len(files[processed_path].rows) < MinSamples) =>
            /\ stdout'["do_analysis"] = <<MsgSummary, MsgTooFew>>
            /\ corrs' = 0
            /\ figures' = figures]_vars

(***************************************************************************)
(* pull_wrds_data.py                                                       *)
(***************************************************************************)
MaxAcctRows == 2

MaxMktRows == 2

ISINs == {"DE000BASF111", "DE0007164600"}

\* datadate BETWEEN '2023-12-25' AND '2023-12-31', as days of December
DateLo == 25

DateHi == 31

MsgNoIsinCol == "no ISIN column"

MsgEmptyInput == "accounting or market data empty"

MsgEmptyMerge == "merge result empty"

MsgWritten == "file written"

\* the rows comp.g_funda can return for the ISINs asked for
AcctRows(isins) ==
    {[isin |-> i, year_ |-> Fin(target_year), total_assets |-> Fin(2),
      net_income |-> Fin(1), common_equity |-> Fin(1)] : i \in isins}

\* the rows comp.g_secd can return for the ISINs asked for
MktRows(isins) ==
    {[isin |-> i, datadate |-> d, price_close |-> p,
      shares_outstanding |-> Fin(10000)] :
        i \in isins, d \in {DateLo, DateHi}, p \in {Fin(100), Fin(200)}}

Frames(S, n) == {<<>>} \cup SeqsUpTo(S, n)

\* sort_values('datadate') with the default quicksort, which is not stable:
\* the orders of the rows that are sorted by datadate
SortValues(df) ==
    LET n == Len(df)
        perms == {q \in [1..n -> 1..n] : \A i, j \in 1..n : i # j => q[i] # q[j]}
        sorted == {q \in perms :
                     \A i, j \in 1..n : i < j => df[q[i]].datadate <= df[q[j]].datadate}
    IN  {[i \in 1..n |-> df[q[i]]] : q \in sorted}

IsFirstOfGroup(df, i) == \A j \in 1..(i - 1) : df[j].isin # df[i].isin

\* whether row i is the last row of its isin group: tail(1) keeps it
IsLastOfGroup(df, i) == \A j \in (i + 1)..Len(df) : df[j].isin # df[i].isin

\* groupby('isin').tail(1): the last row of every group, in the frame's order
TailOne(df) ==
    LET idx == SelectSeq([i \in 1..Len(df) |-> i], LAMBDA i : IsLastOfGroup(df, i))
    IN  [k \in 1..Len(idx) |-> df[idx[k]]]

\* pd.merge(df_acct, df_mkt[[isin, price_close, shares_outstanding]],
\*          on='isin', how='inner') followed by the market_cap column
RECURSIVE MergeInner(_, _)
MergeInner(acct, mkt) ==
    IF acct = <<>> THEN <<>>
    ELSE LET a == Head(acct)
             matches == SelectSeq(mkt, LAMBDA m : m.isin = a.isin)
         IN  [k \in 1..Len(matches) |-> MergedRow(a, matches[k])]
                 \o MergeInner(Tail(acct), mkt)

WriteAnyway(df_final) == TRUE

\* line 119: the merge result is written unless it is empty
ShouldWrite(df_final) == df_final # <<>>

\* one run of the script, from the file-system state it finds
PullWrdsData ==
    /\ ran = "none"
    /\ ran' = "pull_wrds_data"
    /\ corrs' = 0
    /\ reads' = {}
    /\ UNCHANGED <<processed_path, figures, figdir, corrvars, regvars>>
    /\ \E has_col \in BOOLEAN, isins \in SUBSET ISINs :
         IF ~has_col
         THEN \* lines 41-43: no ISIN column, return
              /\ stdout' = [stdout EXCEPT !["pull_wrds_data"] = <<MsgNoIsinCol>>]
              /\ raised' = ""
              /\ target_isins' = {}
              /\ df_acct' = <<>> /\ df_mkt_raw' = <<>> /\ df_mkt' = <<>>
              /\ UNCHANGED files
         ELSE IF Cardinality(isins) < 2
         THEN \* "IN ()" and "IN ('x',)" are not SQL: the first query raises
              /\ stdout' = [stdout EXCEPT !["pull_wrds_data"] = <<>>]
              /\ raised' = "ProgrammingError"
              /\ target_isins' = isins
              /\ df_acct' = <<>> /\ df_mkt_raw' = <<>> /\ df_mkt' = <<>>
              /\ UNCHANGED files
         ELSE \E acct \in Frames(AcctRows(isins), MaxAcctRows),
                 raw \in Frames(MktRows(isins), MaxMktRows) :
                \E sorted \in SortValues(raw) :
                   LET mkt == TailOne(sorted)
                       df_final == MergeInner(acct, mkt)
                   IN  /\ target_isins' = isins
                       /\ df_acct' = acct
                       /\ df_mkt_raw' = raw
                       /\ df_mkt' = mkt
                       /\ raised' = ""
                       /\ IF acct = <<>> \/ mkt = <<>>
                          THEN /\ stdout' = [stdout EXCEPT !["pull_wrds_data"] =
                                                 <<MsgEmptyInput>>]
                               /\ UNCHANGED files
                          ELSE IF ShouldWrite(df_final)
                          THEN /\ stdout' = [stdout EXCEPT !["pull_wrds_data"] =
                                                 <<MsgWritten>>]
                               /\ files' = [files EXCEPT ![RawPath] = File(df_final)]
                          ELSE /\ stdout' = [stdout EXCEPT !["pull_wrds_data"] =
                                                 <<MsgEmptyMerge>>]
                               /\ UNCHANGED files

\* before a run of pull_wrds_data: no raw file, or the one an earlier run left
InitPull ==
    /\ processed_path = HardPath
    /\ files \in {[p \in Paths |-> IF p = RawPath THEN raw ELSE Absent] :
                     raw \in {Absent, File(<<BaseRow>>)}}
    /\ figdir = FALSE
    /\ figures = {}
    /\ NotRun
    /\ PullNotRun
    /\ CorrNotCalled
    /\ RegNotConstructed

SpecPull == InitPull /\ [][PullWrdsData]_vars

(***************************************************************************)
(* pull_wrds_data: the properties                                          *)
(***************************************************************************)
RowsOf(df, isin) == {i \in 1..Len(df) : df[i].isin = isin}

IsinsOf(df) == {df[i].isin : i \in 1..Len(df)}

\* C9: the market table used for the merge has exactly one row per ISIN of
\* the raw market result, a raw row of that ISIN with the maximal datadate.
C9_LatestRowPerIsin ==
    /\ IsinsOf(df_mkt) = IsinsOf(df_mkt_raw)
    /\ \A isin \in IsinsOf(df_mkt_raw) :
         /\ Cardinality(RowsOf(df_mkt, isin)) = 1
         /\ \A k \in RowsOf(df_mkt, isin) :
              /\ \E i \in RowsOf(df_mkt_raw, isin) : df_mkt_raw[i] = df_mkt[k]
              /\ \A i \in RowsOf(df_mkt_raw, isin) :
                   df_mkt_raw[i].datadate <= df_mkt[k].datadate

\* two raw rows of one ISIN on different days, the later one first in the
\* query result: the later row is the one kept
C9_Witness ==
    /\ Len(df_mkt_raw) = 2 /\ Len(df_mkt) = 1
    /\ df_mkt_raw[1].isin = df_mkt_raw[2].isin
    /\ df_mkt_raw[1].datadate > df_mkt_raw[2].datadate
    /\ df_mkt_raw[1].price_close # df_mkt_raw[2].price_close
    /\ df_mkt[1] = df_mkt_raw[1]

\* a run that wrote one merged row: the accounting result has two ISINs, the
\* market result one of them
C10_Witness ==
    /\ stdout["pull_wrds_data"] = <<MsgWritten>>
    /\ Cardinality(IsinsOf(df_acct)) = 2
    /\ Cardinality(IsinsOf(df_mkt)) = 1
    /\ Len(files[RawPath].rows) = 1
    /\ files[RawPath].rows[1].market_cap = Fin(2000000)

\* C10: the raw-data file is written only when the accounting result, the
\* market result and their merge are non-empty; every written row's ISIN is
\* in both results and its market_cap is price_close * shares_outstanding;
\* with an empty accounting or market result nothing is written.
C10_WriteOnlyNonEmptyMerge ==
    [][/\ (files'[RawPath] # files[RawPath] \/ stdout'["pull_wrds_data"] = <<MsgWritten>>) =>
            /\ df_acct' # <<>> /\ df_mkt' # <<>>
            /\ files'[RawPath].exists /\ files'[RawPath].rows # <<>>
            /\ \A i \in 1..Len(files'[RawPath].rows) :
                 LET r == files'[RawPath].rows[i]
                 IN  /\ r.isin \in IsinsOf(df_acct') \cap IsinsOf(df_mkt')
                     /\ r.market_cap = Mul(r.price_close, r.shares_outstanding)
       /\ (df_acct' = <<>> \/ df_mkt' = <<>>) => files' = files]_vars

(***************************************************************************)
(* panel_eda_helper_funcs.prepare_correlation_table                        *)
(***************************************************************************)
MaxCols == 3

\* the default of the parameter pval
pval == Rat(5, 100)

\* the p-values scipy can return: below pval, equal to it, undefined
PVals == {Rat(49, 1000), Rat(50, 1000), NaN}

\* the Spearman and the Pearson p-value of a pair of columns: both are
\* undefined exactly when one of the two columns is constant
PValPairs == {q \in PVals \X PVals : IsNaN(q[1]) <=> IsNaN(q[2])}

Pairs(n) == {<<i, j>> \in (1..n) \X (1..n) : i < j}

Pair(i, j) == IF i < j THEN <<i, j>> ELSE <<j, i>>

\* a cell of _spe: which statistic of which two columns it holds
Spearman(i, j) == [stat |-> "spearman", cols |-> Pair(i, j)]

Pearson(i, j) == [stat |-> "pearson", cols |-> Pair(i, j)]

Blank == [stat |-> "nan", cols |-> <<0, 0>>]

\* a cell of pval_tab, an object column of booleans and nan
Flag(b) == IF b THEN "True" ELSE "False"

\* spearmanr(df): two scalars for two columns, two n x n matrices otherwise,
\* each made a data frame over columns and index (a scalar is broadcast)
SpearmanStat(n, i, j) ==
    IF n = 2 THEN Spearman(1, 2)
    ELSE IF i = j THEN [stat |-> "one", cols |-> <<i, i>>] ELSE Spearman(i, j)

SpearmanP(n, ps, i, j) ==
    IF n = 2 THEN ps[<<1, 2>>]
    ELSE IF i = j THEN Fin(0) ELSE ps[Pair(i, j)]

AbovePearsonBelow(i, j) == i > j

\* line 48: the cells the loop overwrites with the Pearson correlation
AbovePearson(i, j) == i < j

\* lines 43-51: the loop over the cells of _spe and pval_tab
CorrCell(n, i, j) ==
    IF i = j THEN Blank
    ELSE IF AbovePearson(i, j) THEN Pearson(i, j) ELSE SpearmanStat(n, i, j)

FlagCell(n, ps, pp, i, j) ==
    IF i = j THEN "nan"
    ELSE IF AbovePearson(i, j) THEN Flag(Lt(pp[Pair(i, j)], pval))
         ELSE Flag(Lt(SpearmanP(n, ps, i, j), pval))

PrepareCorrelationTable ==
    /\ df_cols = 0
    /\ \E n \in 2..MaxCols :
         \E pq \in [Pairs(n) -> PValPairs] :
            LET ps == [c \in Pairs(n) |-> pq[c][1]]
                pp == [c \in Pairs(n) |-> pq[c][2]]
            IN  /\ df_cols' = n
                /\ sp_pvalue' = ps
                /\ pe_pvalue' = pp
                /\ spe' = [c \in (1..n) \X (1..n) |-> CorrCell(n, c[1], c[2])]
                /\ pval_tab' = [c \in (1..n) \X (1..n) |->
                                   FlagCell(n, ps, pp, c[1], c[2])]
    /\ UNCHANGED <<fsvars, pullvars, regvars>>

InitCorr == InitIdle

SpecCorr == InitCorr /\ [][PrepareCorrelationTable]_vars

MaxModels == 2

ErrModels == "Exception: models can only be auto, ols or logit"

ErrLogit == "NotImplementedError: logit"

ErrLength == "Exception: variables must have the same length"

ErrByvar == "Exception: byvar is not implemented"

\* str.lower on the model names a caller may pass
Lower(m) ==
    CASE m = "OLS" -> "ols"
      [] m = "Logit" -> "logit"
      [] OTHER -> m

ModelNames == {"OLS", "Logit", "probit"}

Repeat(x, n) == [i \in 1..n |-> x]

\* an optional list argument: None, or a list of the right or a wrong length
OptionalLists(x, n) ==
    {[none |-> TRUE, val |-> <<>>]}
        \cup {[none |-> FALSE, val |-> Repeat(x, m)] : m \in {n, n + 1}}

OptionalModels ==
    {[none |-> TRUE, val |-> <<>>]}
        \cup {[none |-> FALSE, val |-> v] : v \in Frames(ModelNames, MaxModels)}

\* lines 132-142: [False] * len(dvs) if the argument is None
DefaultFlags(n, x, arg) == IF arg.none THEN Repeat(x, n) ELSE arg.val

\* lines 126-147: the fields the constructor sets before it validates
Fields(a) ==
    [len |-> a.dvs, dvs |-> a.dvs, idvs |-> a.idvs,
     entity_effects |-> DefaultFlags(a.dvs, FALSE, a.entity_effects),
     time_effects |-> DefaultFlags(a.dvs, FALSE, a.time_effects),
     cluster_entity |-> DefaultFlags(a.dvs, FALSE, a.cluster_entity),
     cluster_time |-> DefaultFlags(a.dvs, FALSE, a.cluster_time),
     models |-> IF a.models.none THEN Repeat("auto", a.dvs)
                ELSE [i \in 1..Len(a.models.val) |-> Lower(a.models.val[i])],
     byvar |-> a.byvar]

Range(f) == {f[i] : i \in DOMAIN f}

\* the lengths of the seven lists of _equal_len_vars
Lengths(s) ==
    {s.dvs, Len(s.idvs), Len(s.entity_effects), Len(s.time_effects),
     Len(s.cluster_entity), Len(s.cluster_time), Len(s.models)}

ValidateLengthFirst(s) ==
    IF Cardinality(Lengths(s)) > 1 THEN ErrLength
    ELSE IF Range(s.models) \ {"auto", "ols", "logit"} # {} THEN ErrModels
    ELSE IF "logit" \in Range(s.models) THEN ErrLogit
    ELSE IF s.byvar # "" THEN ErrByvar
    ELSE ""

\* lines 149-163: the exception the constructor raises, "" when none
Validate(s) ==
    IF Range(s.models) \ {"auto", "ols", "logit"} # {} THEN ErrModels
    ELSE IF "logit" \in Range(s.models) THEN ErrLogit
    ELSE IF Cardinality(Lengths(s)) > 1 THEN ErrLength
    ELSE IF s.byvar # "" THEN ErrByvar
    ELSE ""

\* PrepareRegressionTable.__init__ up to line 163
Construct ==
    /\ reg_pc = "new"
    /\ \E nd \in 0..MaxModels,
          idvs \in Frames({{"roa"}, {"size"}}, MaxModels),
          byvar \in {"", "industry"},
          models \in OptionalModels :
         \E ee \in OptionalLists(TRUE, nd), te \in OptionalLists(TRUE, nd),
            ce \in OptionalLists(TRUE, nd), ct \in OptionalLists(TRUE, nd) :
            LET a == [dvs |-> nd, idvs |-> idvs, entity_effects |-> ee,
                      time_effects |-> te, cluster_entity |-> ce,
                      cluster_time |-> ct, models |-> models, byvar |-> byvar]
                err == Validate(Fields(a))
            IN  /\ reg_args' = a
                /\ self' = Fields(a)
                /\ reg_raised' = err
                /\ reg_pc' = IF err = "" THEN "validated" ELSE "failed"
    /\ UNCHANGED <<estimated, pvalues, sig_rows>>
    /\ UNCHANGED <<fsvars, pullvars, corrvars>>

\* the coefficients feols reports for model i: its regressors, and the
\* intercept unless a fixed effect absorbs it
CoefNames(s, i) ==
    s.idvs[i] \cup (IF s.entity_effects[i] \/ s.time_effects[i] THEN {}
                    ELSE {"Intercept"})

\* the p-values around the three thresholds; a model's coefficients share
\* the p-value drawn for it
RegPVals ==
    {Rat(99, 10000), Rat(1, 100), Rat(499, 10000), Rat(5, 100),
     Rat(999, 10000), Rat(1, 10)}

\* _get_stat('pvalues'): the outer merge of the models' p-values on the
\* variable, nan where a model has no such coefficient
MergeOuter(s, pv) ==
    [v \in UNION {CoefNames(s, i) : i \in 1..s.len} |->
        [i \in 1..s.len |-> IF v \in CoefNames(s, i) THEN pv[i] ELSE NaN]]

StarsInclusive(p) ==
    IF ~Gt(p, Rat(1, 100)) /\ ~IsNaN(p) THEN "***"
    ELSE IF Lt(p, Rat(5, 100)) THEN "**"
    ELSE IF Lt(p, Rat(1, 10)) THEN "*"
    ELSE ""

\* line 348: the stars of a coefficient
Stars(p) ==
    IF Lt(p, Rat(1, 100)) THEN "***"
    ELSE IF Lt(p, Rat(5, 100)) THEN "**"
    ELSE IF Lt(p, Rat(1, 10)) THEN "*"
    ELSE ""

\* line 348: the digits the coefficient is rounded to
Digits(p) ==
    IF Lt(p, Rat(1, 100)) THEN 3
    ELSE IF Lt(p, Rat(5, 100)) THEN 4
    ELSE IF Lt(p, Rat(1, 10)) THEN 5
    ELSE 6

\* the columns of self.params
Column(i) == i

\* _mark_sig: per column the coefficient with its stars, then the separator
MarkSig(pvals) ==
    [c \in 1..Len(pvals) |->
        [digits |-> Digits(pvals[c]), stars |-> Stars(pvals[c]),
         sep |-> IF Column(c) # Column(Len(pvals)) THEN "&" ELSE ""]]

\* lines 165-201: the estimation and the table
Estimate ==
    /\ reg_pc = "validated"
    /\ IF self.len = 0
       THEN \* all_params[0] of an empty list
            /\ reg_raised' = "IndexError"
            /\ reg_pc' = "failed"
            /\ UNCHANGED <<estimated, pvalues, sig_rows>>
       ELSE \E pv \in [1..self.len -> RegPVals] :
               LET merged == MergeOuter(self, pv)
               IN  /\ estimated' = self.len
                   /\ pvalues' = merged
                   /\ sig_rows' = [v \in DOMAIN merged |-> MarkSig(merged[v])]
                   /\ reg_pc' = "done"
                   /\ UNCHANGED reg_raised
    /\ UNCHANGED <<reg_args, self>>
    /\ UNCHANGED <<fsvars, pullvars, corrvars>>

NextReg == Construct \/ Estimate

SpecReg == InitIdle /\ [][NextReg]_vars

(***************************************************************************)
(* PrepareRegressionTable: the properties                                  *)
(***************************************************************************)
LoweredModels ==
    IF reg_args.models.none THEN {}
    ELSE {Lower(reg_args.models.val[k]) : k \in 1..Len(reg_args.models.val)}

ArgLength(arg) == IF arg.none THEN reg_args.dvs ELSE Len(arg.val)

ArgLengths ==
    {reg_args.dvs, Len(reg_args.idvs), ArgLength(reg_args.entity_effects),
     ArgLength(reg_args.time_effects), ArgLength(reg_args.cluster_entity),
     ArgLength(reg_args.cluster_time), ArgLength(reg_args.models)}

\* C6: the constructor raises, before any model is estimated and in this
\* order, for a model name that is not auto, ols or logit, for logit, for
\* lists of different lengths, for a non-empty byvar; a list passed as None
\* is replaced by a default of length len(dvs).
C6_ValidationOrder ==
    reg_pc # "new" =>
        LET bad == LoweredModels \ {"auto", "ols", "logit"} # {}
            logit == "logit" \in LoweredModels
            mismatch == Cardinality(ArgLengths) > 1
        IN  /\ bad => reg_raised = ErrModels /\ estimated = 0
            /\ (~bad /\ logit) => reg_raised = ErrLogit /\ estimated = 0
            /\ (~bad /\ ~logit /\ mismatch) => reg_raised = ErrLength /\ estimated = 0
            /\ (~bad /\ ~logit /\ ~mismatch /\ reg_args.byvar # "") =>
                   reg_raised = ErrByvar /\ estimated = 0
            /\ reg_args.entity_effects.none =>
                   self.entity_effects = [i \in 1..reg_args.dvs |-> FALSE]
            /\ reg_args.time_effects.none =>
                   self.time_effects = [i \in 1..reg_args.dvs |-> FALSE]
            /\ reg_args.cluster_entity.none =>
                   self.cluster_entity = [i \in 1..reg_args.dvs |-> FALSE]
            /\ reg_args.cluster_time.none =>
                   self.cluster_time = [i \in 1..reg_args.dvs |-> FALSE]
            /\ reg_args.models.none => self.models = [i \in 1..reg_args.dvs |-> "auto"]
            /\ (/\ reg_args.entity_effects.none /\ reg_args.time_effects.none
                /\ reg_args.cluster_entity.none /\ reg_args.cluster_time.none
                /\ reg_args.models.none /\ Len(reg_args.idvs) = reg_args.dvs) =>
                   reg_raised # ErrLength

\* an unknown model name is reported although a logit entry, lists of
\* different lengths and a byvar are present as well
C6_Witness ==
    /\ reg_pc = "failed" /\ reg_raised = ErrModels /\ estimated = 0
    /\ reg_args.models.val = <<"Logit", "probit">>
    /\ reg_args.dvs = 1 /\ reg_args.entity_effects.none
    /\ reg_args.byvar # ""

LeF(a, b) == Lt(a, b) \/ FEq(a, b)

\* C8: a cell has '***' exactly when p < 0.01, '**' exactly when
\* 0.01 <= p < 0.05, '*' exactly when 0.05 <= p < 0.1, no star when
\* p >= 0.1; a row has one cell per model, '&' after all but the last.
C8_StarsMatchNote ==
    reg_pc = "done" =>
        \A v \in DOMAIN sig_rows :
            /\ Len(sig_rows[v]) = reg_args.dvs
            /\ \A c \in 1..Len(sig_rows[v]) :
                 LET p == pvalues[v][c]
                     cell == sig_rows[v][c]
                 IN  /\ cell.stars = "***" <=> Lt(p, Rat(1, 100))
                     /\ cell.stars = "**" <=> (LeF(Rat(1, 100), p) /\ Lt(p, Rat(5, 100)))
                     /\ cell.stars = "*" <=> (LeF(Rat(5, 100), p) /\ Lt(p, Rat(1, 10)))
                     /\ LeF(Rat(1, 10), p) => cell.stars = ""
                     /\ cell.sep = "&" <=> c < reg_args.dvs
                     /\ cell.sep \in {"&", ""}

\* two models: p = 0.01 gets two stars, the other model lacks the variable
C8_Witness ==
    /\ reg_pc = "done" /\ reg_args.dvs = 2
    /\ \E v \in DOMAIN sig_rows :
         /\ pvalues[v][1] = Rat(1, 100) /\ sig_rows[v][1].stars = "**"
         /\ sig_rows[v][1].sep = "&"
         /\ IsNaN(pvalues[v][2]) /\ sig_rows[v][2].stars = ""
         /\ sig_rows[v][2].sep = ""

====
